---- MODULE Spec2Model ----
(***************************************************************************)
(* The pairs-trading AutoTrader of src/autotrader.cc as a state machine.   *)
(*                                                                         *)
(* `at` is the AutoTrader object (one field per data member).  Every       *)
(* message handler is an operator from the object, and the handler's       *)
(* arguments, to the object afterwards and the requests it sent.  One      *)
(* action per handler delivers an event; `out` is what the last handler    *)
(* sent.  The exchange side (which orders were requested, how much of each *)
(* was filled) is recorded in `quotes`, `hedgeOpen`, `hedgeVolSent` and   *)
(* `hedgeRejected`, so that fills are delivered only for requested volume. *)
(***************************************************************************)
EXTENDS Integers, Sequences, FiniteSets, TLC

VARIABLES at, out, connected, quotes, hedgeOpen, hedgeVolSent, hedgeRejected

vars == <<at, out, connected, quotes, hedgeOpen, hedgeVolSent, hedgeRejected>>

(***************************************************************************)
(* Program constant and the bounds of the model.                           *)
(***************************************************************************)
POSITION_LIMIT == 100

MaxId == 2
MaxPrice == 2
MaxLots == 2
VolUnit == 50

Ids == 0..MaxId
Vols == {VolUnit * k : k \in 1..MaxLots}
Sides == {"SELL", "BUY"}
Instruments == {"ETF", "FUTURE"}

Min(a, b) == IF a < b THEN a ELSE b

(***************************************************************************)
(* Level 0 of an order book message: an empty side is price 0, volume 0,   *)
(* and a two-sided book is not crossed.  The ETF book shows one volume,    *)
(* the Future book every volume.                                           *)
(***************************************************************************)
BooksOf(vols) ==
    { b \in [askPrice : 0..MaxPrice, askVolume : {0} \cup vols,
             bidPrice : 0..MaxPrice, bidVolume : {0} \cup vols] :
        /\ (b.askPrice = 0) = (b.askVolume = 0)
        /\ (b.bidPrice = 0) = (b.bidVolume = 0)
        /\ (b.askPrice # 0 /\ b.bidPrice # 0) => b.bidPrice < b.askPrice }

ETFBooks == BooksOf({VolUnit * MaxLots})

FutureBooks == BooksOf(Vols)

BooksFor(instrument) == IF instrument = "ETF" THEN ETFBooks ELSE FutureBooks

(***************************************************************************)
(* Requests to the exchange.                                               *)
(***************************************************************************)
SendInsertOrder(id, side, price, volume, lifespan) ==
    [type |-> "Insert", id |-> id, side |-> side, price |-> price,
     volume |-> volume, lifespan |-> lifespan]

SendCancelOrder(id) == [type |-> "Cancel", id |-> id]

SendHedgeOrder(id, side, price, volume) ==
    [type |-> "Hedge", id |-> id, side |-> side, price |-> price, volume |-> volume]

(***************************************************************************)
(* The object after construction.                                          *)
(***************************************************************************)
InitAutoTrader ==
    [mAskId |-> 0, mBidId |-> 0, mHAskId |-> 0, mHBidId |-> 0,
     mAskPrice |-> 0, mBidPrice |-> 0, mHAskPrice |-> 0, mHBidPrice |-> 0,
     mNextMessageId |-> 1, mHNextMessageId |-> 1,
     mPosition |-> 0, mHPosition |-> 0,
     mAsks |-> {}, mBids |-> {}, mHAsks |-> {}, mHBids |-> {},
     ETFbestbid |-> 0, ETFbestask |-> 0, ETFbidvol |-> 0, ETFaskvol |-> 0]

(***************************************************************************)
(* OrderBookMessageHandler, in the order of its statements.  `c` is the    *)
(* object together with the requests sent so far by the running handler.   *)
(***************************************************************************)
StoreETF(c, instrument, b) ==
    IF instrument = "ETF"
    THEN [c EXCEPT !.at.ETFbestbid = b.bidPrice, !.at.ETFbestask = b.askPrice,
                   !.at.ETFbidvol = b.bidVolume, !.at.ETFaskvol = b.askVolume]
    ELSE c

CancelAsk(c) ==
    IF c.at.mAskId # 0 /\ c.at.ETFbestbid # 0 /\ c.at.ETFbestbid # c.at.mBidPrice
    THEN [at |-> [c.at EXCEPT !.mAskId = 0, !.mHBidId = 0],
          out |-> Append(c.out, SendCancelOrder(c.at.mAskId))]
    ELSE c

CancelBid(c) ==
    IF c.at.mBidId # 0 /\ c.at.ETFbestask # 0 /\ c.at.ETFbestask # c.at.mAskPrice
    THEN [at |-> [c.at EXCEPT !.mBidId = 0, !.mHAskId = 0],
          out |-> Append(c.out, SendCancelOrder(c.at.mBidId))]
    ELSE c

SellCondition(s, b) ==
    /\ s.mBidId = 0
    /\ s.mHAskId = 0
    /\ s.mHPosition > -POSITION_LIMIT
    /\ s.mPosition < POSITION_LIMIT
    /\ s.ETFbestbid > b.askPrice

\* PairSell with the hedge sent when the opportunity is seen, not on the fill.
PairSell_ImmediateHedge(c, b) ==
    IF SellCondition(c.at, b)
    THEN LET vol == Min(c.at.ETFbidvol, b.askVolume)
             s == [c.at EXCEPT !.mBidId = c.at.mNextMessageId,
                               !.mNextMessageId = @ + 1,
                               !.mHAskId = c.at.mHNextMessageId,
                               !.mHNextMessageId = @ + 1,
                               !.mBidPrice = c.at.ETFbestbid,
                               !.mHAskPrice = b.askPrice,
                               !.mBids = @ \cup {c.at.mNextMessageId},
                               !.mHAsks = @ \cup {c.at.mHNextMessageId}]
         IN  [at |-> s,
              out |-> c.out \o
                      <<SendInsertOrder(s.mBidId, "SELL", s.mBidPrice, vol, "GOOD_FOR_DAY"),
                        SendHedgeOrder(s.mHAskId, "BUY", s.mHAskPrice, vol)>>]
    ELSE c

PairSell(c, b) ==
    IF SellCondition(c.at, b)
    THEN LET vol == Min(c.at.ETFbidvol, b.askVolume)
             s == [c.at EXCEPT !.mBidId = c.at.mNextMessageId,
                               !.mNextMessageId = @ + 1,
                               !.mHAskId = c.at.mHNextMessageId,
                               !.mHNextMessageId = @ + 1,
                               !.mBidPrice = c.at.ETFbestbid,
                               !.mHAskPrice = b.askPrice,
                               !.mBids = @ \cup {c.at.mNextMessageId}]
         IN  [at |-> s,
              out |-> Append(c.out, SendInsertOrder(s.mBidId, "SELL", s.mBidPrice,
                                                    vol, "GOOD_FOR_DAY"))]
    ELSE c

BuyCondition(s, b) ==
    /\ s.mAskId = 0
    /\ s.mHBidId = 0
    /\ b.bidPrice > s.ETFbestask
    /\ s.mPosition < POSITION_LIMIT
    /\ s.mHPosition > -POSITION_LIMIT

PairBuy(c, b) ==
    IF BuyCondition(c.at, b)
    THEN LET vol == Min(c.at.ETFaskvol, b.bidVolume)
             s == [c.at EXCEPT !.mAskId = c.at.mNextMessageId,
                               !.mNextMessageId = @ + 1,
                               !.mHBidId = c.at.mHNextMessageId,
                               !.mHNextMessageId = @ + 1,
                               !.mAskPrice = c.at.ETFbestask,
                               !.mHBidPrice = b.bidPrice,
                               !.mAsks = @ \cup {c.at.mNextMessageId}]
         IN  [at |-> s,
              out |-> Append(c.out, SendInsertOrder(s.mAskId, "BUY", s.mAskPrice,
                                                    vol, "GOOD_FOR_DAY"))]
    ELSE c

\* OrderBookMessageHandler trading on the update of either instrument.
OrderBookMessageHandler_AnyInstrument(s, instrument, b) ==
    LET c == StoreETF([at |-> s, out |-> <<>>], instrument, b)
    IN  PairBuy(PairSell(CancelBid(CancelAsk(c)), b), b)

OrderBookMessageHandler(s, instrument, b) ==
    LET c == StoreETF([at |-> s, out |-> <<>>], instrument, b)
    IN  IF instrument = "FUTURE"
        THEN PairBuy(PairSell(CancelBid(CancelAsk(c)), b), b)
        ELSE c

(***************************************************************************)
(* The other handlers.                                                     *)
(***************************************************************************)
\* OrderFilledMessageHandler counting the fill of an id in neither quote set
\* as a sale.
OrderFilledMessageHandler_UntrackedCounted(s, clientOrderId, price, volume) ==
    IF clientOrderId \in s.mBids
    THEN [at |-> [s EXCEPT !.mPosition = @ - volume,
                           !.mHAsks = @ \cup {s.mHAskId}],
          out |-> <<SendHedgeOrder(s.mHAskId, "BUY", s.mHAskPrice, volume)>>]
    ELSE IF clientOrderId \in s.mAsks
    THEN [at |-> [s EXCEPT !.mPosition = @ + volume,
                           !.mHBids = @ \cup {s.mHBidId}],
          out |-> <<SendHedgeOrder(s.mHBidId, "SELL", s.mHBidPrice, volume)>>]
    ELSE [at |-> [s EXCEPT !.mPosition = @ - volume], out |-> <<>>]

OrderFilledMessageHandler(s, clientOrderId, price, volume) ==
    IF clientOrderId \in s.mBids
    THEN [at |-> [s EXCEPT !.mPosition = @ - volume,
                           !.mHAsks = @ \cup {s.mHAskId}],
          out |-> <<SendHedgeOrder(s.mHAskId, "BUY", s.mHAskPrice, volume)>>]
    ELSE IF clientOrderId \in s.mAsks
    THEN [at |-> [s EXCEPT !.mPosition = @ + volume,
                           !.mHBids = @ \cup {s.mHBidId}],
          out |-> <<SendHedgeOrder(s.mHBidId, "SELL", s.mHBidPrice, volume)>>]
    ELSE [at |-> s, out |-> <<>>]

HedgeFilledMessageHandler(s, clientOrderId, price, volume) ==
    IF clientOrderId \in s.mHBids
    THEN [at |-> [s EXCEPT !.mHPosition = @ - volume], out |-> <<>>]
    ELSE IF clientOrderId \in s.mHAsks
    THEN [at |-> [s EXCEPT !.mHPosition = @ + volume], out |-> <<>>]
    ELSE [at |-> s, out |-> <<>>]

\* ClearSlot testing the hedge slots before the quote slots.
ClearSlot_HedgeFirst(s, clientOrderId) ==
    IF clientOrderId = s.mHAskId THEN [s EXCEPT !.mHAskId = 0]
    ELSE IF clientOrderId = s.mHBidId THEN [s EXCEPT !.mHBidId = 0]
    ELSE IF clientOrderId = s.mAskId THEN [s EXCEPT !.mAskId = 0]
    ELSE IF clientOrderId = s.mBidId THEN [s EXCEPT !.mBidId = 0]
    ELSE s

ClearSlot(s, clientOrderId) ==
    IF clientOrderId = s.mAskId THEN [s EXCEPT !.mAskId = 0]
    ELSE IF clientOrderId = s.mBidId THEN [s EXCEPT !.mBidId = 0]
    ELSE IF clientOrderId = s.mHAskId THEN [s EXCEPT !.mHAskId = 0]
    ELSE IF clientOrderId = s.mHBidId THEN [s EXCEPT !.mHBidId = 0]
    ELSE s

OrderStatusMessageHandler(s, clientOrderId, fillVolume, remainingVolume, fees) ==
    IF remainingVolume = 0
    THEN [at |-> [ClearSlot(s, clientOrderId) EXCEPT
                      !.mAsks = @ \ {clientOrderId},
                      !.mBids = @ \ {clientOrderId},
                      !.mHAsks = @ \ {clientOrderId},
                      !.mHBids = @ \ {clientOrderId}],
          out |-> <<>>]
    ELSE [at |-> s, out |-> <<>>]

\* ErrorMessageHandler looking the id up in mAsks only.
ErrorMessageHandler_AsksOnly(s, clientOrderId) ==
    IF clientOrderId # 0 /\ clientOrderId \in s.mAsks
    THEN OrderStatusMessageHandler(s, clientOrderId, 0, 0, 0)
    ELSE [at |-> s, out |-> <<>>]

ErrorMessageHandler(s, clientOrderId) ==
    IF clientOrderId # 0 /\ (clientOrderId \in s.mAsks \/ clientOrderId \in s.mBids)
    THEN OrderStatusMessageHandler(s, clientOrderId, 0, 0, 0)
    ELSE [at |-> s, out |-> <<>>]

TradeTicksMessageHandler(s, instrument, b) == [at |-> s, out |-> <<>>]

DisconnectHandler(s) == [at |-> s, out |-> <<>>]

(***************************************************************************)
(* The exchange's record of what was requested.  quotes[id] is the quote   *)
(* order inserted with that id: its side and volume, the secondary price   *)
(* of the book update that created it, the volume reported filled so far,  *)
(* and how far it is: "working", "cancelling" once a cancel was sent for   *)
(* it, "terminal" once the exchange reported zero remaining volume (the    *)
(* order was filled completely or cancelled, or its insert was answered    *)
(* with an error the engine ignored), "rejected" once the engine handled   *)
(* the error for its insert while tracking it.  The exchange fills and     *)
(* reports only working or cancelling orders.  hedgeOpen[<<id, side>>] is  *)
(* the hedge volume requested under that id and side and neither filled    *)
(* nor rejected yet; hedgeVolSent is the total hedge volume requested;     *)
(* hedgeRejected says that an error was reported for a hedge request.      *)
(***************************************************************************)
RecordRequest(q, m, b) ==
    IF m.type = "Insert"
    THEN [i \in DOMAIN q \cup {m.id} |->
            IF i = m.id
            THEN [side |-> m.side, volume |-> m.volume,
                  hedgePrice |-> IF m.side = "SELL" THEN b.askPrice ELSE b.bidPrice,
                  filled |-> 0, st |-> "working"]
            ELSE q[i]]
    ELSE IF m.type = "Cancel" /\ m.id \in DOMAIN q /\ q[m.id].st = "working"
    THEN [q EXCEPT ![m.id].st = "cancelling"]
    ELSE q

RECURSIVE RecordRequests(_, _, _)
RecordRequests(q, msgs, b) ==
    IF msgs = <<>> THEN q
    ELSE RecordRequests(RecordRequest(q, Head(msgs), b), Tail(msgs), b)

RECURSIVE RecordHedges(_, _)
RecordHedges(h, msgs) ==
    IF msgs = <<>> THEN h
    ELSE LET m == Head(msgs)
         IN  RecordHedges(IF m.type = "Hedge"
                          THEN [h EXCEPT ![<<m.id, m.side>>] = @ + m.volume]
                          ELSE h,
                          Tail(msgs))

RECURSIVE HedgeVolume(_)
HedgeVolume(msgs) ==
    IF msgs = <<>> THEN 0
    ELSE (IF Head(msgs).type = "Hedge" THEN Head(msgs).volume ELSE 0)
         + HedgeVolume(Tail(msgs))

Live(o) == o.st \in {"working", "cancelling"}

RECURSIVE QuoteVolFilledUpTo(_, _)
QuoteVolFilledUpTo(q, n) ==
    IF n = 0 THEN 0
    ELSE (IF n \in DOMAIN q THEN q[n].filled ELSE 0) + QuoteVolFilledUpTo(q, n - 1)

QuoteVolFilled == QuoteVolFilledUpTo(quotes, at.mNextMessageId)

NoBook == [askPrice |-> 0, askVolume |-> 0, bidPrice |-> 0, bidVolume |-> 0]

(***************************************************************************)
(* The state machine.                                                      *)
(***************************************************************************)
Init ==
    /\ at = InitAutoTrader
    /\ out = <<>>
    /\ connected = TRUE
    /\ quotes = <<>>
    /\ hedgeOpen = [k \in Ids \X Sides |-> 0]
    /\ hedgeVolSent = 0
    /\ hedgeRejected = FALSE

Deliver(c, q) ==
    /\ connected
    /\ at' = c.at
    /\ out' = c.out
    /\ quotes' = q
    /\ hedgeOpen' = RecordHedges(hedgeOpen, c.out)
    /\ hedgeVolSent' = hedgeVolSent + HedgeVolume(c.out)
    /\ UNCHANGED <<connected, hedgeRejected>>

OrderBook ==
    \E instrument \in Instruments : \E b \in BooksFor(instrument) :
        LET c == OrderBookMessageHandler(at, instrument, b)
        IN  /\ c.at.mNextMessageId <= MaxId + 1
            /\ Deliver(c, RecordRequests(quotes, c.out, b))

OrderFilled ==
    \E id \in DOMAIN quotes, volume \in Vols :
        /\ Live(quotes[id])
        /\ quotes[id].filled + volume <= quotes[id].volume
        /\ Deliver(OrderFilledMessageHandler(at, id, 0, volume),
                   [quotes EXCEPT ![id].filled = @ + volume])

HedgeFilled ==
    \E k \in DOMAIN hedgeOpen, volume \in Vols :
        /\ connected
        /\ volume <= hedgeOpen[k]
        /\ at' = HedgeFilledMessageHandler(at, k[1], 0, volume).at
        /\ out' = HedgeFilledMessageHandler(at, k[1], 0, volume).out
        /\ hedgeOpen' = [hedgeOpen EXCEPT ![k] = @ - volume]
        /\ UNCHANGED <<connected, quotes, hedgeVolSent, hedgeRejected>>

OrderStatus ==
    \E id \in DOMAIN quotes :
        /\ Live(quotes[id])
        /\ \/ /\ quotes[id].filled = quotes[id].volume \/ quotes[id].st = "cancelling"
              /\ Deliver(OrderStatusMessageHandler(at, id, 0, 0, 0),
                         [quotes EXCEPT ![id].st = "terminal"])
           \/ /\ quotes[id].filled < quotes[id].volume
              /\ Deliver(OrderStatusMessageHandler(at, id, 0,
                             quotes[id].volume - quotes[id].filled, 0), quotes)

Error ==
    \/ \E id \in DOMAIN quotes :
        /\ quotes[id].st = "working"
        /\ quotes[id].filled = 0
        /\ Deliver(ErrorMessageHandler(at, id),
                   [quotes EXCEPT ![id].st = IF id \in at.mAsks \cup at.mBids
                                             THEN "rejected" ELSE "terminal"])
    \/ \E id \in Ids :
        /\ \E side \in Sides : hedgeOpen[<<id, side>>] > 0
        /\ connected
        /\ at' = ErrorMessageHandler(at, id).at
        /\ out' = ErrorMessageHandler(at, id).out
        /\ hedgeOpen' = [k \in DOMAIN hedgeOpen |-> IF k[1] = id THEN 0 ELSE hedgeOpen[k]]
        /\ hedgeRejected' = TRUE
        /\ UNCHANGED <<connected, quotes, hedgeVolSent>>

TradeTicks ==
    \E instrument \in Instruments :
        Deliver(TradeTicksMessageHandler(at, instrument, NoBook), quotes)

Disconnect ==
    /\ connected
    /\ connected' = FALSE
    /\ at' = DisconnectHandler(at).at
    /\ out' = DisconnectHandler(at).out
    /\ UNCHANGED <<quotes, hedgeOpen, hedgeVolSent, hedgeRejected>>

Next ==
    \/ OrderBook
    \/ OrderFilled
    \/ HedgeFilled
    \/ OrderStatus
    \/ Error
    \/ TradeTicks
    \/ Disconnect

Spec == Init /\ [][Next]_vars

(***************************************************************************)
(* Vocabulary of the properties.  A property about a handler is stated for *)
(* every reachable state and every argument the handler can be given       *)
(* there: the handler is applied to the current object and the result is   *)
(* compared with what the property asks.                                   *)
(***************************************************************************)
Messages(msgs) == {msgs[i] : i \in 1..Len(msgs)}

Inserts(msgs) == {m \in Messages(msgs) : m.type = "Insert"}

Cancels(msgs) == {m \in Messages(msgs) : m.type = "Cancel"}

Hedges(msgs) == {m \in Messages(msgs) : m.type = "Hedge"}

FutureUpdate(b) == OrderBookMessageHandler(at, "FUTURE", b)

QuoteSets(s) == s.mAsks \cup s.mBids

AllSets(s) == s.mAsks \cup s.mBids \cup s.mHAsks \cup s.mHBids

Slots(s) == {s.mAskId, s.mBidId, s.mHAskId, s.mHBidId}

Opposite(side) == IF side = "SELL" THEN "BUY" ELSE "SELL"

InsideLimit(p) == -POSITION_LIMIT < p /\ p < POSITION_LIMIT

\* C1 (limit invariant): in every reachable state Position and Hedge Position
\* are strictly inside (-POSITION_LIMIT, POSITION_LIMIT).
C1_LimitInvariant == InsideLimit(at.mPosition) /\ InsideLimit(at.mHPosition)

\* C2 (limit-breach avoidance): a Future book update never inserts a quote
\* whose complete fill, or the hedge of that fill, takes Position or Hedge
\* Position to or beyond the limit.
C2_NoBreachingQuote ==
    \A b \in FutureBooks :
        \A m \in Inserts(FutureUpdate(b).out) :
            /\ m.side = "SELL" =>
                 ~ \/ at.mPosition - m.volume <= -POSITION_LIMIT
                   \/ at.mHPosition + m.volume >= POSITION_LIMIT
            /\ m.side = "BUY" =>
                 ~ \/ at.mPosition + m.volume >= POSITION_LIMIT
                   \/ at.mHPosition - m.volume <= -POSITION_LIMIT

\* C3 (at most one per side): each of the tracking sets mBids, mAsks, mHBids
\* and mHAsks holds at most one id.
C3_AtMostOnePerSide ==
    /\ Cardinality(at.mBids) <= 1
    /\ Cardinality(at.mAsks) <= 1
    /\ Cardinality(at.mHBids) <= 1
    /\ Cardinality(at.mHAsks) <= 1

\* A cancel was sent for the quote and the engine has handled neither a
\* zero-remaining status nor an error for it since (handling either erases
\* the id from the quote sets).
CancelPending(q, s, id) == q[id].st = "cancelling" /\ id \in QuoteSets(s)

\* C4 (cancel before replace): a Future book update inserts no quote on a side
\* on which a cancel is pending, the cancels of the same update included.
C4_CancelBeforeReplace ==
    \A b \in FutureBooks :
        LET c == FutureUpdate(b)
            q == RecordRequests(quotes, c.out, b)
        IN  \A m \in Inserts(c.out) :
                \A id \in DOMAIN quotes :
                    ~ (q[id].side = m.side /\ CancelPending(q, at, id))

\* C5 (fill triggers hedge): a fill of volume V for a tracked quote sends
\* exactly one hedge, of volume V, on the opposite side, at the secondary
\* price recorded when that quote was created.
C5_FillTriggersHedge ==
    \A id \in QuoteSets(at), volume \in Vols :
        LET c == OrderFilledMessageHandler(at, id, 0, volume)
        IN  /\ Len(c.out) = 1
            /\ c.out[1].type = "Hedge"
            /\ c.out[1].volume = volume
            /\ c.out[1].side = Opposite(quotes[id].side)
            /\ c.out[1].price = quotes[id].hedgePrice

\* C6 (terminal cleanup idempotence): a zero-remaining status for an id that
\* matches no slot and is in no tracking set changes nothing and sends
\* nothing, and handling the same zero-remaining status twice gives the
\* state that handling it once gives.
C6_CleanupIdempotent ==
    \A id \in Ids :
        LET once == OrderStatusMessageHandler(at, id, 0, 0, 0)
            twice == OrderStatusMessageHandler(once.at, id, 0, 0, 0)
        IN  /\ (id \notin Slots(at) /\ id \notin AllSets(at)) =>
                 (once.at = at /\ once.out = <<>>)
            /\ twice.at = once.at

\* C7 (error as implicit cancellation): an error for a non-zero id in mAsks
\* or mBids gives the state a status (id, 0, 0, 0) gives, with the id in no
\* tracking set and in no quote slot, and sends nothing; an error for any
\* other id changes nothing and sends nothing.
C7_ErrorIsCancellation ==
    \A id \in Ids :
        LET c == ErrorMessageHandler(at, id)
        IN  IF id # 0 /\ id \in QuoteSets(at)
            THEN /\ c.at = OrderStatusMessageHandler(at, id, 0, 0, 0).at
                 /\ id \notin AllSets(c.at)
                 /\ c.at.mAskId # id
                 /\ c.at.mBidId # id
                 /\ c.out = <<>>
            ELSE c.at = at /\ c.out = <<>>

\* An error for the insert of a tracked quote has been handled.
C7_Witness ==
    \E id \in DOMAIN quotes :
        /\ quotes[id].st = "rejected"
        /\ id \notin AllSets(at)
        /\ at.mAskId # id
        /\ at.mBidId # id
        /\ out = <<>>

\* A sell lowers Position and its hedge raises Hedge Position; a buy raises
\* Position and its hedge lowers Hedge Position.
RoomToSell(s) == s.mPosition > -POSITION_LIMIT /\ s.mHPosition < POSITION_LIMIT

RoomToBuy(s) == s.mPosition < POSITION_LIMIT /\ s.mHPosition > -POSITION_LIMIT

\* The slot is not set once the update's stale-order cancellation is done.
FreeAfterCancel(c, quoteId, hedgeId) ==
    \/ quoteId = 0 /\ hedgeId = 0
    \/ quoteId # 0 /\ SendCancelOrder(quoteId) \in Cancels(c.out)

\* C8 (cross-opportunity rule): a Future book update inserts a SELL quote
\* exactly when, after its cancellations, no bid-side quote slot and no
\* ask-side hedge slot is set, both positions have room and the cached ETF
\* best bid exceeds the update's best ask; the quote has a new id, the cached
\* ETF best bid as price, the smaller of the cached ETF bid volume and the
\* update's ask volume, a day-scoped lifespan, and its id is put in mBids.
\* Symmetrically for the BUY quote.
C8_CrossOpportunity ==
    \A b \in FutureBooks :
        LET c == FutureUpdate(b)
            sells == {m \in Inserts(c.out) : m.side = "SELL"}
            buys == {m \in Inserts(c.out) : m.side = "BUY"}
        IN  /\ (sells # {}) <=> /\ FreeAfterCancel(c, at.mBidId, at.mHAskId)
                                /\ RoomToSell(at)
                                /\ at.ETFbestbid > b.askPrice
            /\ (buys # {}) <=> /\ FreeAfterCancel(c, at.mAskId, at.mHBidId)
                               /\ RoomToBuy(at)
                               /\ b.bidPrice > at.ETFbestask
            /\ Cardinality(sells) <= 1
            /\ Cardinality(buys) <= 1
            /\ \A m \in sells :
                 /\ m.id # 0 /\ m.id \notin DOMAIN quotes
                 /\ m.price = at.ETFbestbid
                 /\ m.volume = Min(at.ETFbidvol, b.askVolume)
                 /\ m.lifespan = "GOOD_FOR_DAY"
                 /\ m.id \in c.at.mBids
            /\ \A m \in buys :
                 /\ m.id # 0 /\ m.id \notin DOMAIN quotes
                 /\ m.price = at.ETFbestask
                 /\ m.volume = Min(at.ETFaskvol, b.bidVolume)
                 /\ m.lifespan = "GOOD_FOR_DAY"
                 /\ m.id \in c.at.mAsks

C10_StaleOrderCancellation ==
    \A b \in FutureBooks :
        LET c == FutureUpdate(b)
            staleAsk == /\ at.mAskId # 0
                        /\ b.bidPrice # 0
                        /\ b.bidPrice # quotes[at.mAskId].hedgePrice
            staleBid == /\ at.mBidId # 0
                        /\ b.askPrice # 0
                        /\ b.askPrice # quotes[at.mBidId].hedgePrice
        IN  /\ Cancels(c.out) =
                 (IF staleAsk THEN {SendCancelOrder(at.mAskId)} ELSE {})
                 \cup (IF staleBid THEN {SendCancelOrder(at.mBidId)} ELSE {})
            /\ \A i, j \in 1..Len(c.out) :
                 (c.out[i].type = "Cancel" /\ c.out[j].type = "Insert") => i < j

\* A quote slot that held an id in s is 0 in t.
AskSlotCleared(s, t) == s.mAskId # 0 /\ t.mAskId = 0

BidSlotCleared(s, t) == s.mBidId # 0 /\ t.mBidId = 0

\* C11 (asynchronous cancel): no handler takes a quote slot (mAskId, mBidId)
\* from a non-zero id to 0, a book update that sends the cancel included,
\* except the handling of a zero-remaining status for that id, directly or
\* through the error handler.
C11_AsynchronousCancel ==
    /\ \A instrument \in Instruments : \A b \in BooksFor(instrument) :
         /\ ~ AskSlotCleared(at, OrderBookMessageHandler(at, instrument, b).at)
         /\ ~ BidSlotCleared(at, OrderBookMessageHandler(at, instrument, b).at)
         /\ ~ AskSlotCleared(at, TradeTicksMessageHandler(at, instrument, b).at)
         /\ ~ BidSlotCleared(at, TradeTicksMessageHandler(at, instrument, b).at)
    /\ \A id \in Ids :
         /\ \A volume \in Vols :
              \A t \in {OrderFilledMessageHandler(at, id, 0, volume).at,
                        HedgeFilledMessageHandler(at, id, 0, volume).at,
                        OrderStatusMessageHandler(at, id, 0, volume, 0).at} :
                  ~ AskSlotCleared(at, t) /\ ~ BidSlotCleared(at, t)
         /\ \A t \in {OrderStatusMessageHandler(at, id, 0, 0, 0).at,
                      ErrorMessageHandler(at, id).at} :
              /\ AskSlotCleared(at, t) => id = at.mAskId
              /\ BidSlotCleared(at, t) => id = at.mBidId
    /\ ~ AskSlotCleared(at, DisconnectHandler(at).at)
    /\ ~ BidSlotCleared(at, DisconnectHandler(at).at)

\* C12 (terminal status cleanup): after a zero-remaining status for a
\* non-zero id, no slot equals the id and no tracking set contains it, also
\* when the id matches more than one slot; a status with remaining volume
\* above 0 changes nothing.
C12_TerminalStatusCleanup ==
    \A id \in Ids :
        /\ id # 0 =>
             LET t == OrderStatusMessageHandler(at, id, 0, 0, 0).at
             IN  id \notin Slots(t) /\ id \notin AllSets(t)
        /\ \A volume \in Vols :
             OrderStatusMessageHandler(at, id, 0, volume, 0).at = at

\* Hedge ids known to have been used by an earlier SendHedgeOrder: the ids in
\* the hedge tracking sets (put there when a hedge is sent) and the ids under
\* which requested hedge volume is open at the exchange.
HedgeIdsUsed ==
    at.mHAsks \cup at.mHBids
    \cup {id \in Ids : \E side \in Sides : hedgeOpen[<<id, side>>] > 0}

\* The exchange can report this fill: the quote is working or being
\* cancelled and has that much volume left.
Fillable(id, volume) ==
    /\ id \in DOMAIN quotes
    /\ Live(quotes[id])
    /\ quotes[id].filled + volume <= quotes[id].volume

\* C13 (fresh hedge ids): the hedge sent for a fill the exchange can report
\* carries a non-zero id that no earlier hedge request used, also for a
\* later partial fill of the same quote, a fill after the quote's cancel was
\* requested and a fill after a status cleared the hedge slot.
C13_FreshHedgeIds ==
    \A id \in Ids, volume \in Vols :
        Fillable(id, volume) =>
            \A m \in Hedges(OrderFilledMessageHandler(at, id, 0, volume).out) :
                m.id # 0 /\ m.id \notin HedgeIdsUsed

\* Every quote requested on the side is over (a zero-remaining status or an
\* error for it was handled by the exchange's account), there has been at
\* least one, and no hedge volume is open.
SideSettled(side) ==
    /\ \E id \in DOMAIN quotes : quotes[id].side = side
    /\ \A id \in DOMAIN quotes : quotes[id].side = side => ~ Live(quotes[id])
    /\ \A k \in DOMAIN hedgeOpen : hedgeOpen[k] = 0

\* C14 (self-healing): once the quotes of a side are terminal and their
\* hedges filled, with both positions inside the limit, the next Future book
\* update that shows the cross for that side inserts a new quote on it.
C14_SelfHealing ==
    (InsideLimit(at.mPosition) /\ InsideLimit(at.mHPosition)) =>
        \A b \in FutureBooks :
            /\ (/\ SideSettled("SELL")
                /\ b.askPrice # 0
                /\ at.ETFbestbid > b.askPrice)
               => \E m \in Inserts(FutureUpdate(b).out) : m.side = "SELL"
            /\ (/\ SideSettled("BUY")
                /\ at.ETFbestask # 0
                /\ b.bidPrice > at.ETFbestask)
               => \E m \in Inserts(FutureUpdate(b).out) : m.side = "BUY"

\* The exchange can report this hedge fill: that much requested hedge volume
\* is open under the id.
HedgeFillable(id, volume) == \E side \in Sides : volume <= hedgeOpen[<<id, side>>]

\* C15 (hedge-fill bookkeeping): a hedge fill of volume V the exchange can
\* report raises Hedge Position by V for an id in mHAsks, lowers it by V for
\* an id in mHBids and leaves it for an id in neither; it changes nothing
\* else and sends nothing.
C15_HedgeFillBookkeeping ==
    \A id \in Ids, volume \in Vols :
        HedgeFillable(id, volume) =>
            LET c == HedgeFilledMessageHandler(at, id, 0, volume)
            IN  /\ id \in at.mHAsks => c.at.mHPosition = at.mHPosition + volume
                /\ id \in at.mHBids => c.at.mHPosition = at.mHPosition - volume
                /\ id \notin at.mHAsks \cup at.mHBids =>
                     c.at.mHPosition = at.mHPosition
                /\ c.at = [at EXCEPT !.mHPosition = c.at.mHPosition]
                /\ c.out = <<>>

SamePositions(s, t) == t.mPosition = s.mPosition /\ t.mHPosition = s.mHPosition

\* C16 (positions change only on fills): OrderFilled changes Position by
\* -volume for an id in mBids and by +volume for an id in mAsks and leaves
\* Hedge Position; for an id in neither set it changes nothing and sends
\* nothing; HedgeFilled leaves Position; book updates, status events, error
\* events, trade ticks and disconnect leave both positions.
C16_PositionsChangeOnlyOnFills ==
    /\ \A instrument \in Instruments : \A b \in BooksFor(instrument) :
         /\ SamePositions(at, OrderBookMessageHandler(at, instrument, b).at)
         /\ SamePositions(at, TradeTicksMessageHandler(at, instrument, b).at)
    /\ \A id \in Ids :
         /\ SamePositions(at, OrderStatusMessageHandler(at, id, 0, 0, 0).at)
         /\ SamePositions(at, ErrorMessageHandler(at, id).at)
         /\ \A volume \in Vols :
              LET f == OrderFilledMessageHandler(at, id, 0, volume)
                  h == HedgeFilledMessageHandler(at, id, 0, volume)
              IN  /\ SamePositions(at, OrderStatusMessageHandler(at, id, 0, volume, 0).at)
                  /\ h.at.mPosition = at.mPosition
                  /\ f.at.mHPosition = at.mHPosition
                  /\ id \in at.mBids => f.at.mPosition = at.mPosition - volume
                  /\ id \in at.mAsks => f.at.mPosition = at.mPosition + volume
                  /\ id \notin QuoteSets(at) => (f.at = at /\ f.out = <<>>)
    /\ SamePositions(at, DisconnectHandler(at).at)

\* Both positions have been moved by fills, and after a status erased the
\* filled quote a fill for its id would be ignored.
C16_Witness ==
    /\ at.mPosition # 0
    /\ at.mHPosition # 0
    /\ \E id \in DOMAIN quotes :
         /\ quotes[id].filled > 0
         /\ id \notin QuoteSets(at)

\* C17 (primary-side and informational events are passive): an ETF book
\* update only overwrites the cached ETF best bid and ask, price and volume,
\* with the update's level 0, and a trade-ticks event changes nothing;
\* neither sends a request.
C17_PassiveEvents ==
    /\ \A b \in ETFBooks :
         LET c == OrderBookMessageHandler(at, "ETF", b)
         IN  /\ c.at = [at EXCEPT !.ETFbestbid = b.bidPrice,
                                  !.ETFbestask = b.askPrice,
                                  !.ETFbidvol = b.bidVolume,
                                  !.ETFaskvol = b.askVolume]
             /\ c.out = <<>>
    /\ \A instrument \in Instruments : \A b \in BooksFor(instrument) :
         LET c == TradeTicksMessageHandler(at, instrument, b)
         IN  c.at = at /\ c.out = <<>>

\* An ETF book update moved the cached best bid away from the price of the
\* working SELL quote and sent nothing.
C17_Witness ==
    /\ at.mBidId # 0
    /\ at.ETFbestbid # 0
    /\ at.ETFbestbid # at.mBidPrice
    /\ out = <<>>

\* Every hedge request sent so far was filled completely, each fill reported
\* by a HedgeFilled event with the request's id; none was rejected.
AllHedgesFilled ==
    /\ ~ hedgeRejected
    /\ \A k \in DOMAIN hedgeOpen : hedgeOpen[k] = 0

\* C18 (hedging neutralises inventory): in every reachable state in which
\* every hedge request sent has been filled completely and reported,
\* Position + Hedge Position = 0.
C18_HedgingNeutralises ==
    AllHedgesFilled => at.mPosition + at.mHPosition = 0

\* C19 (no empty orders): no book update inserts an order of volume 0, also
\* when a side of the update or of the cached ETF book is empty (price 0,
\* volume 0).
C19_NoEmptyOrders ==
    \A instrument \in Instruments : \A b \in BooksFor(instrument) :
        \A m \in Inserts(OrderBookMessageHandler(at, instrument, b).out) :
            m.volume # 0

\* C20 (slot/set consistency): in every reachable state a non-zero mBidId is
\* in mBids, a non-zero mAskId is in mAsks, and no id is in both mBids and
\* mAsks.
C20_SlotSetConsistency ==
    /\ at.mBidId # 0 => at.mBidId \in at.mBids
    /\ at.mAskId # 0 => at.mAskId \in at.mAsks
    /\ at.mBids \cap at.mAsks = {}

\* A quote slot is set and tracked while an earlier quote has been erased
\* from the sets by its zero-remaining status.
C20_Witness ==
    /\ \/ at.mBidId # 0 /\ at.mBidId \in at.mBids
       \/ at.mAskId # 0 /\ at.mAskId \in at.mAsks
    /\ \E id \in DOMAIN quotes :
         quotes[id].st = "terminal" /\ id \notin QuoteSets(at)

====
